---- MODULE Spec2Model ----
(***************************************************************************)
(* Model of nfstools.go: the ZDIR directory decoder, the file-name hash,   *)
(* the name catalog, the output path resolver, the archive slice extractor *)
(* and the main loop that ties them together.                              *)
(*                                                                         *)
(* Representation.  A Go string or []byte is a sequence of byte values     *)
(* 0..255.  A uint32 is a record [hi, lo] of its two 16-bit halves (value  *)
(* hi * 2^16 + lo), because the values reach 2^32 - 1.  An int64 that is   *)
(* never negative is a record [h, l] with value h * 2^27 + l, l < 2^27.    *)
(***************************************************************************)
EXTENDS Integers, Sequences, FiniteSets, TLC

VARIABLES
    call,       \* SpecPure: the last call of a pure function, arguments and result
    argc,       \* len(os.Args)
    pc,         \* main: position in the orchestrator
    dirFile,    \* bytes of the file at os.Args[1]
    archive,    \* the file at os.Args[2]
    listText,   \* embeddedFileList
    headers,    \* main: headers
    hashList,   \* main: hashList
    idx,        \* main: 1-based index of the record the range loop is at
    outPath,    \* main: outPath of the current iteration
    files,      \* file system: path -> content of every regular file written
    dirs,       \* file system: set of directories created
    stdout,     \* lines printed by fmt.Println
    stderr,     \* contexts reported by exitWithError
    exitCode,   \* process exit status, -1 while running
    ret         \* outcome of the last extractFile call

vars == <<call, argc, pc, dirFile, archive, listText, headers, hashList, idx,
          outPath, files, dirs, stdout, stderr, exitCode, ret>>

runVars == <<argc, pc, dirFile, archive, listText, headers, hashList, idx,
             outPath, files, dirs, stdout, stderr, exitCode, ret>>

-----------------------------------------------------------------------------
(* Bounds of the explored inputs *)

MaxNameLen == 3
MaxDirLen == 25
MaxDirSeed == 3
MaxZdirSize == 50
MaxPathTextLen == 4
MaxRecords == 2
MaxLines == 2

-----------------------------------------------------------------------------
(* Program constants *)

z2002 == 12
z2003 == 24
headerSizeBytes == 12
offsetShift == 11
MaxScanTokenSize == 65536                                        \* bufio.MaxScanTokenSize
Separator == 47                                                  \* os.PathSeparator, '/'
extractedRoot == <<69, 88, 84, 82, 65, 67, 84, 69, 68>>          \* "EXTRACTED"
unknownDir == <<95, 95, 85, 78, 75, 78, 79, 87, 78, 95, 95>>     \* "__UNKNOWN__"

-----------------------------------------------------------------------------
(* Generic helpers *)

Range(s) == {s[i] : i \in 1..Len(s)}

SeqsUpTo(S, n) == UNION {[1..k -> S] : k \in 0..n}

RECURSIVE Pow2(_)
Pow2(n) == IF n = 0 THEN 1 ELSE 2 * Pow2(n - 1)

-----------------------------------------------------------------------------
(* uint32 and int64 *)

U32(hi, lo) == [hi |-> hi, lo |-> lo]

\* the mutant widens the byte as a signed char
WidenSigned(b) == IF b < 128 THEN U32(0, b) ELSE U32(65535, 65280 + b)
\* uint32(name[i]): a byte is unsigned, widening keeps its value
Widen(b) == U32(0, b)

\* 33*hash + x on uint32, overflow truncated
Mul33Add(h, x) ==
    LET t == 33 * h.lo + x.lo
    IN  U32((33 * h.hi + x.hi + (t \div 65536)) % 65536, t % 65536)

\* int64(u): zero extension of a uint32
I64FromU32(u) ==
    [h |-> u.hi \div 2048, l |-> (u.hi % 2048) * 65536 + u.lo]

\* int64(u) << offsetShift (offsetShift = 27 - 16, so the high half of u is
\* the part above 2^27 and the low half stays below it)
Shl(u) ==
    [h |-> u.hi, l |-> u.lo * Pow2(offsetShift)]

\* an int64 compared with a file length n (n < 2^27)
I64Less(x, n) == x.h = 0 /\ x.l < n

-----------------------------------------------------------------------------
(* getFileNameHash *)

hashSeed == U32(65535, 65535)

RECURSIVE HashFrom(_, _, _)
HashFrom(hash, name, i) ==
    IF i > Len(name) THEN hash
    ELSE HashFrom(Mul33Add(hash, Widen(name[i])), name, i + 1)

getFileNameHash(name) == HashFrom(hashSeed, name, 1)

-----------------------------------------------------------------------------
(* detectZdirType, on the size that f.Stat reports *)

\* the mutant tests the smaller width first
detectZdirType12First(size) ==
    IF size % z2002 = 0 THEN [err |-> FALSE, type |-> z2002]
    ELSE IF size % z2003 = 0 THEN [err |-> FALSE, type |-> z2003]
    ELSE [err |-> TRUE, type |-> 0]

detectZdirType(size) ==
    IF size % z2003 = 0 THEN [err |-> FALSE, type |-> z2003]
    ELSE IF size % z2002 = 0 THEN [err |-> FALSE, type |-> z2002]
    ELSE [err |-> TRUE, type |-> 0]

-----------------------------------------------------------------------------
(* loadHeaders, on the bytes of the directory file *)

\* binary.BigEndian, the mutant
Uint32BE(b, p) == U32(b[p] * 256 + b[p + 1], b[p + 2] * 256 + b[p + 3])
\* binary.LittleEndian.Uint32 of the four bytes from 1-based position p
Uint32LE(b, p) == U32(b[p + 2] + 256 * b[p + 3], b[p] + 256 * b[p + 1])

\* one header struct, fields in declaration order
ReadHeader(b, p) ==
    [NameHash |-> Uint32LE(b, p),
     LocalOffset |-> Uint32LE(b, p + 4),
     Size |-> Uint32LE(b, p + 8)]

loadHeaders(bytes) ==
    IF Len(bytes) % headerSizeBytes # 0
    THEN [err |-> TRUE, headers |-> <<>>]
    ELSE [err |-> FALSE,
          headers |-> [i \in 1..(Len(bytes) \div headerSizeBytes) |->
                          ReadHeader(bytes, headerSizeBytes * (i - 1) + 1)]]

-----------------------------------------------------------------------------
(* loadHashList *)

\* position of the first byte c of s, 0 when there is none
IndexByte(s, c) ==
    LET at == {i \in 1..Len(s) : s[i] = c}
    IN  IF at = {} THEN 0 ELSE CHOOSE i \in at : \A j \in at : i <= j

\* bufio's dropCR: one trailing carriage return is removed
dropCR(line) ==
    IF Len(line) > 0 /\ line[Len(line)] = 13 THEN SubSeq(line, 1, Len(line) - 1) ELSE line

\* the tokens bufio.Scanner yields with its default split function ScanLines.
\* A line that fills the scanner's buffer of MaxScanTokenSize bytes before
\* its newline or the end of the text ends the scan with ErrTooLong: Scan
\* returns false for good, and neither that line nor a later one is yielded.
RECURSIVE ScanLines(_)
ScanLines(data) ==
    IF Len(data) = 0 THEN <<>>
    ELSE LET i == IndexByte(data, 10)
             n == IF i > 0 THEN i - 1 ELSE Len(data)
         IN  IF n >= MaxScanTokenSize THEN <<>>
             ELSE IF i > 0
             THEN <<dropCR(SubSeq(data, 1, i - 1))>> \o ScanLines(SubSeq(data, i + 1, Len(data)))
             ELSE <<dropCR(data)>>

\* the mutant keeps the entry already present
PutIfAbsent(hashes, hash, name) == hashes @@ (hash :> name)
\* hashes[hash] = name
Put(hashes, hash, name) == (hash :> name) @@ hashes

RECURSIVE LoadFrom(_, _, _)
LoadFrom(hashes, lines, i) ==
    IF i > Len(lines) THEN hashes
    ELSE LoadFrom(Put(hashes, getFileNameHash(lines[i]), lines[i]), lines, i + 1)

loadHashList(list) == LoadFrom(<<>>, ScanLines(list), 1)

-----------------------------------------------------------------------------
(* buildOutputPath *)

ReplaceAll(s, old, new) == [i \in 1..Len(s) |-> IF s[i] = old THEN new ELSE s[i]]

\* filepath.FromSlash: every slash becomes os.PathSeparator
FromSlash(s) == ReplaceAll(s, 47, Separator)

\* the elements of a path between its slashes
RECURSIVE SplitSlash(_)
SplitSlash(s) ==
    LET i == IndexByte(s, 47)
    IN  IF i = 0 THEN <<s>>
        ELSE <<SubSeq(s, 1, i - 1)>> \o SplitSlash(SubSeq(s, i + 1, Len(s)))

RECURSIVE JoinSlash(_)
JoinSlash(elems) ==
    IF Len(elems) = 0 THEN <<>>
    ELSE IF Len(elems) = 1 THEN elems[1]
    ELSE elems[1] \o <<47>> \o JoinSlash(Tail(elems))

\* filepath.Clean: empty and "." elements dropped, "x/.." cancelled, ".."
\* kept at the front of a relative path and dropped at the root
RECURSIVE CleanElems(_, _, _, _)
CleanElems(out, elems, i, rooted) ==
    IF i > Len(elems) THEN out
    ELSE LET e == elems[i]
         IN  IF e = <<>> \/ e = <<46>> THEN CleanElems(out, elems, i + 1, rooted)
             ELSE IF e = <<46, 46>>
             THEN IF Len(out) > 0 /\ out[Len(out)] # <<46, 46>>
                  THEN CleanElems(SubSeq(out, 1, Len(out) - 1), elems, i + 1, rooted)
                  ELSE IF rooted THEN CleanElems(out, elems, i + 1, rooted)
                  ELSE CleanElems(Append(out, e), elems, i + 1, rooted)
             ELSE CleanElems(Append(out, e), elems, i + 1, rooted)

Clean(path) ==
    IF Len(path) = 0 THEN <<46>>
    ELSE LET rooted == path[1] = 47
             body == JoinSlash(CleanElems(<<>>, SplitSlash(path), 1, rooted))
         IN  IF rooted THEN <<47>> \o body
             ELSE IF Len(body) = 0 THEN <<46>> ELSE body

\* filepath.Join: the non-empty elements joined by slashes, then cleaned
Join(elems) ==
    LET ne == SelectSeq(elems, LAMBDA e : Len(e) > 0)
    IN  IF Len(ne) = 0 THEN <<>> ELSE Clean(JoinSlash(ne))

\* the digit characters of fmt's %X and, for the mutant, of %x
ldigit(d) == IF d < 10 THEN 48 + d ELSE 87 + d
udigit(d) == IF d < 10 THEN 48 + d ELSE 55 + d

\* fmt.Sprintf("%X", u): digits taken from the low end until the value is
\* below 16, no padding
RECURSIVE SprintfX(_)
SprintfX(u) ==
    IF u.hi = 0 /\ u.lo < 16 THEN <<udigit(u.lo)>>
    ELSE SprintfX(U32(u.hi \div 16, (u.hi % 16) * 4096 + (u.lo \div 16)))
            \o <<udigit(u.lo % 16)>>

buildOutputPath(h, hashes) ==
    IF h.NameHash \in DOMAIN hashes
    THEN LET normalized == FromSlash(ReplaceAll(hashes[h.NameHash], 92, 47))
         IN  Join(<<extractedRoot, normalized>>)
    ELSE Join(<<extractedRoot, unknownDir, SprintfX(h.LocalOffset)>>)

-----------------------------------------------------------------------------
(* SpecPure: each pure function applied to inputs drawn from bounded sets *)

HashBytes == {0, 47, 97, 128, 255}
PathBytes == {10, 46, 47, 92, 97}
OffsetPool == {U32(0, 0), U32(0, 42), U32(32, 0), U32(43981, 61185), U32(65535, 65535)}
SizePool == {U32(0, 0), U32(0, 5)}
unknownHash == U32(0, 7)

\* a directory file of the given length, its bytes spread over 0..255
DirBytes(len, seed) == [p \in 1..len |-> (seed * 85 + p * p * 31 + p * 7) % 256]

NoCall == [fn |-> "none"]

CallGetFileNameHash ==
    /\ call = NoCall
    /\ \E name \in SeqsUpTo(HashBytes, MaxNameLen) :
          call' = [fn |-> "getFileNameHash", name |-> name,
                   result |-> getFileNameHash(name)]
    /\ UNCHANGED runVars

CallDetectZdirType ==
    /\ call = NoCall
    /\ \E size \in 0..MaxZdirSize :
          call' = [fn |-> "detectZdirType", size |-> size,
                   result |-> detectZdirType(size)]
    /\ UNCHANGED runVars

CallLoadHeaders ==
    /\ call = NoCall
    /\ \E len \in 0..MaxDirLen, seed \in 0..MaxDirSeed :
          call' = [fn |-> "loadHeaders", bytes |-> DirBytes(len, seed),
                   result |-> loadHeaders(DirBytes(len, seed))]
    /\ UNCHANGED runVars

CallBuildOutputPath ==
    /\ call = NoCall
    /\ \E text \in SeqsUpTo(PathBytes, MaxPathTextLen) :
          LET hashes == loadHashList(text)
          IN  \E nh \in DOMAIN hashes \cup {unknownHash}, off \in OffsetPool, size \in SizePool :
                 LET h == [NameHash |-> nh, LocalOffset |-> off, Size |-> size]
                 IN  call' = [fn |-> "buildOutputPath", h |-> h, hashes |-> hashes,
                              result |-> buildOutputPath(h, hashes)]
    /\ UNCHANGED runVars

Idle ==
    /\ argc = 0
    /\ pc = "idle"
    /\ dirFile = <<>>
    /\ archive = [len |-> 0, seed |-> 0]
    /\ listText = <<>>
    /\ headers = <<>>
    /\ hashList = <<>>
    /\ idx = 0
    /\ outPath = <<>>
    /\ files = <<>>
    /\ dirs = {}
    /\ stdout = <<>>
    /\ stderr = <<>>
    /\ exitCode = -1
    /\ ret = [called |-> FALSE]

InitPure == call = NoCall /\ Idle

NextPure ==
    \/ CallGetFileNameHash
    \/ CallDetectZdirType
    \/ CallLoadHeaders
    \/ CallBuildOutputPath

SpecPure == InitPure /\ [][NextPure]_vars

-----------------------------------------------------------------------------
(* The file system and extractFile *)

\* the archive is a file of archive.len bytes; byte p (0-based) of it
ArchiveByte(a, p) == (a.seed + 7 * p + 3 * (p \div 2048)) % 256

LastIndexByte(s, c) ==
    IF c \in Range(s) THEN CHOOSE i \in 1..Len(s) : s[i] = c /\ \A j \in (i + 1)..Len(s) : s[j] # c
    ELSE 0

\* filepath.Dir: everything up to the last slash, cleaned
Dir(path) == Clean(SubSeq(path, 1, LastIndexByte(path, 47)))

\* the working directory and its ancestors exist
IsDir(d, path) ==
    \/ path \in d
    \/ path = <<46>>
    \/ \A e \in Range(SplitSlash(path)) : e = <<46, 46>>

\* os.MkdirAll: nothing to do for a directory, ENOTDIR for a file, otherwise
\* the parent first and then the directory itself
RECURSIVE MkdirAll(_, _, _)
MkdirAll(f, d, path) ==
    IF IsDir(d, path) THEN [err |-> FALSE, dirs |-> d]
    ELSE IF path \in DOMAIN f THEN [err |-> TRUE, dirs |-> d]
    ELSE LET i == LastIndexByte(path, 47)
             up == IF i > 1 THEN MkdirAll(f, d, SubSeq(path, 1, i - 1))
                   ELSE [err |-> FALSE, dirs |-> d]
         IN  IF up.err THEN up
             ELSE [err |-> FALSE, dirs |-> up.dirs \cup {path}]

\* the bytes an io.SectionReader(archive, offset, size) delivers before EOF:
\* none at or past the end of the file, otherwise up to size of what is left
SectionBytes(a, offset, size) ==
    IF ~I64Less(offset, a.len) THEN <<>>
    ELSE LET left == a.len - offset.l
             n == IF I64Less(size, left) THEN size.l ELSE left
         IN  [i \in 1..n |-> ArchiveByte(a, offset.l + i - 1)]

\* os.Create: O_CREATE|O_TRUNC
Create(f, path) == (path :> <<>>) @@ f

\* extractFile.  fault is what the environment does to this call: "none",
\* "open" (the archive cannot be opened) or "copy" (a read or write error
\* after j bytes reached the destination).
extractFile(f, d, a, path, offset, size, fault, j) ==
    IF fault = "open" THEN [err |-> TRUE, files |-> f, dirs |-> d]
    ELSE LET mk == MkdirAll(f, d, Dir(path))
         IN  IF mk.err THEN [err |-> TRUE, files |-> f, dirs |-> mk.dirs]
             ELSE IF IsDir(mk.dirs, path) THEN [err |-> TRUE, files |-> f, dirs |-> mk.dirs]
             ELSE LET data == SectionBytes(a, offset, size)
                      f1 == Create(f, path)
                  IN  IF fault = "copy"
                      THEN [err |-> TRUE, dirs |-> mk.dirs,
                            files |-> (path :> SubSeq(data, 1, j)) @@ f1]
                      ELSE [err |-> FALSE, dirs |-> mk.dirs,
                            files |-> (path :> data) @@ f1]

-----------------------------------------------------------------------------
(* main *)

\* "failed to load headers"
failedToLoadHeaders ==
    <<102, 97, 105, 108, 101, 100, 32, 116, 111, 32, 108, 111, 97, 100, 32,
      104, 101, 97, 100, 101, 114, 115>>

\* filepath.Base(os.Args[0])
progname == <<110, 102, 115, 116, 111, 111, 108, 115>>                 \* "nfstools"

\* the three lines printUsage writes to standard output before os.Exit(1)
printUsage(name) ==
    << <<85, 115, 97, 103, 101, 58, 32>> \o name \o <<32, 60, 90, 68, 73, 82, 62, 32, 60, 90, 90, 68, 65, 84, 65, 62>>,
       <<85, 115, 97, 103, 101, 58, 32>> \o name
          \o <<32, 60, 90, 68, 73, 82, 62, 32, 60, 90, 90, 68, 65, 84, 65, 48, 62, 32, 60, 90, 90, 68, 65, 84, 65, 49, 62, 32, 60, 90, 90, 68, 65, 84, 65, 50, 62, 32, 46, 46, 46>>,
       <<85, 115, 97, 103, 101, 58, 32>> \o name \o <<32, 60, 90, 68, 73, 82, 62, 32, 60, 90, 90, 68, 65, 84, 65, 123, 48, 46, 46, 51, 125, 62, 32, 46, 46, 46>> >>

\* exitWithError never returns; the mutant lets the loop go on
afterExtractIgnoreErr(err) == "print"
afterExtract(err) == IF err THEN "failed" ELSE "print"

\* uint32 -> 4 bytes, lowest first, to lay out the directory files of Init
EncodeU32(u) == <<u.lo % 256, u.lo \div 256, u.hi % 256, u.hi \div 256>>

RECURSIVE EncodeDir(_)
EncodeDir(rs) ==
    IF Len(rs) = 0 THEN <<>>
    ELSE EncodeU32(rs[1].NameHash) \o EncodeU32(rs[1].LocalOffset)
            \o EncodeU32(rs[1].Size) \o EncodeDir(Tail(rs))

RECURSIVE JoinLines(_)
JoinLines(ls) == IF Len(ls) = 0 THEN <<>> ELSE ls[1] \o <<10>> \o JoinLines(Tail(ls))

Rec(nh, off, size) == [NameHash |-> nh, LocalOffset |-> off, Size |-> size]

LinePool == {<<>>, <<97>>, <<97, 80>>, <<98, 47>>, <<97, 92, 98>>}
\* a line that does not fit the scanner's buffer
LongLine == [i \in 1..MaxScanTokenSize |-> 97]
ListTexts ==
    {JoinLines(ls) : ls \in SeqsUpTo(LinePool, MaxLines)}
        \cup {<<97, 13, 10, 97, 80>>, <<97, 80, 10>> \o LongLine \o <<10, 98, 47, 10>>}

RecordPool ==
    { Rec(getFileNameHash(<<97>>), U32(0, 0), U32(0, 2)),
      Rec(getFileNameHash(<<97>>), U32(0, 1), U32(0, 5)),
      Rec(unknownHash, U32(0, 0), U32(0, 0)),
      Rec(unknownHash, U32(32, 0), U32(0, 2)),
      Rec(getFileNameHash(<<97, 92, 98>>), U32(0, 1), U32(0, 2)) }

DirFiles ==
    {EncodeDir(rs) : rs \in SeqsUpTo(RecordPool, MaxRecords)}
        \cup {EncodeDir(<<Rec(unknownHash, U32(0, 0), U32(0, 0))>>) \o <<0>>}

Archives == {[len |-> 3, seed |-> 1], [len |-> 2051, seed |-> 1]}

\* the program name alone, one argument, or the two arguments main uses:
\* only then are there a directory file and an archive to speak of
Init ==
    /\ call = NoCall
    /\ pc = "main"
    /\ \/ /\ argc = 3
          /\ dirFile \in DirFiles
          /\ archive \in Archives
       \/ /\ argc \in {1, 2}
          /\ dirFile = <<>>
          /\ archive = [len |-> 0, seed |-> 0]
    /\ listText \in ListTexts
    /\ headers = <<>>
    /\ hashList = <<>>
    /\ idx = 0
    /\ outPath = <<>>
    /\ files = <<>>
    /\ dirs = {}
    /\ stdout = <<>>
    /\ stderr = <<>>
    /\ exitCode = -1
    /\ ret = [called |-> FALSE]

\* if len(os.Args) < 3 { printUsage() }
ParseArgs ==
    /\ pc = "main"
    /\ IF argc < 3
       THEN /\ stdout' = stdout \o printUsage(progname)
            /\ exitCode' = 1
            /\ pc' = "usage"
       ELSE /\ pc' = "loadHeaders"
            /\ UNCHANGED <<stdout, exitCode>>
    /\ UNCHANGED <<call, argc, dirFile, archive, listText, headers, hashList, idx,
                   outPath, files, dirs, stderr, ret>>

\* headers, err := loadHeaders(headerPath)
LoadHeaders ==
    /\ pc = "loadHeaders"
    /\ LET r == loadHeaders(dirFile)
       IN  IF r.err
           THEN /\ pc' = "failed"
                /\ stderr' = Append(stderr, failedToLoadHeaders)
                /\ exitCode' = 1
                /\ UNCHANGED headers
           ELSE /\ pc' = "loadHashList"
                /\ headers' = r.headers
                /\ UNCHANGED <<stderr, exitCode>>
    /\ UNCHANGED <<call, argc, dirFile, archive, listText, hashList, idx, outPath,
                   files, dirs, stdout, ret>>

\* hashList := loadHashList(embeddedFileList), then the range loop starts
LoadHashList ==
    /\ pc = "loadHashList"
    /\ hashList' = loadHashList(listText)
    /\ IF Len(headers) = 0
       THEN pc' = "done" /\ exitCode' = 0 /\ UNCHANGED idx
       ELSE pc' = "resolve" /\ idx' = 1 /\ UNCHANGED exitCode
    /\ UNCHANGED <<call, argc, dirFile, archive, listText, headers, outPath,
                   files, dirs, stdout, stderr, ret>>

\* outPath := buildOutputPath(hdr, hashList)
Resolve ==
    /\ pc = "resolve"
    /\ outPath' = buildOutputPath(headers[idx], hashList)
    /\ pc' = "extract"
    /\ UNCHANGED <<call, argc, dirFile, archive, listText, headers, hashList, idx,
                   files, dirs, stdout, stderr, exitCode, ret>>

\* extractFile(archivePath, outPath, int64(hdr.LocalOffset)<<offsetShift,
\* int64(hdr.Size)), and exitWithError(outPath, err) when it fails
Extract ==
    /\ pc = "extract"
    /\ LET offset == Shl(headers[idx].LocalOffset)
           size == I64FromU32(headers[idx].Size)
           data == SectionBytes(archive, offset, size)
       IN  \E fault \in {"none", "open", "copy"} :
           \E j \in 0..Len(data) :
              /\ fault # "copy" => j = 0
              /\ fault = "copy" => headers[idx].Size # U32(0, 0)
              /\ LET r == extractFile(files, dirs, archive, outPath, offset, size, fault, j)
                 IN  /\ files' = r.files
                     /\ dirs' = r.dirs
                     /\ ret' = [called |-> TRUE, err |-> r.err, idx |-> idx]
                     /\ pc' = afterExtract(r.err)
                     /\ IF r.err
                        THEN stderr' = Append(stderr, outPath) /\ exitCode' = 1
                        ELSE UNCHANGED <<stderr, exitCode>>
    /\ UNCHANGED <<call, argc, dirFile, archive, listText, headers, hashList, idx,
                   outPath, stdout>>

\* fmt.Println(outPath), then the next record or the end of main
ReportPath ==
    /\ pc = "print"
    /\ stdout' = Append(stdout, outPath)
    /\ IF idx < Len(headers)
       THEN idx' = idx + 1 /\ pc' = "resolve" /\ UNCHANGED exitCode
       ELSE pc' = "done" /\ exitCode' = 0 /\ UNCHANGED idx
    /\ UNCHANGED <<call, argc, dirFile, archive, listText, headers, hashList,
                   outPath, files, dirs, stderr, ret>>

Next ==
    \/ ParseArgs
    \/ LoadHeaders
    \/ LoadHashList
    \/ Resolve
    \/ Extract
    \/ ReportPath

Spec == Init /\ [][Next]_vars

-----------------------------------------------------------------------------
(* Properties of the pure functions *)

\* the value v, -2^31 < v < 2^31, reduced modulo 2^32
U32OfInt(v) ==
    IF v >= 0 THEN U32(v \div 65536, v % 65536)
    ELSE LET m == (-v) - 1 IN U32(65535 - (m \div 65536), 65535 - (m % 65536))

\* the fold 33*h + b from h = -1 over the integers, without truncation
RECURSIVE FoldInt(_, _, _)
FoldInt(h, name, i) ==
    IF i > Len(name) THEN h ELSE FoldInt(33 * h + name[i], name, i + 1)

\* C7: getFileNameHash(s) is the fold h0 = 0xFFFFFFFF, h(i+1) = 33*h(i) + b(i)
\* modulo 2^32 over the bytes of s taken as unsigned values; the hash of the
\* empty string is 0xFFFFFFFF and every hash lies in 0..2^32-1.
HashIsFold ==
    call.fn = "getFileNameHash" =>
        /\ call.result = U32OfInt(FoldInt(-1, call.name, 1))
        /\ call.name = <<>> => call.result = U32(65535, 65535)
        /\ call.result.hi \in 0..65535 /\ call.result.lo \in 0..65535

\* a name of full length with a byte above 127 whose hash wrapped around
HashWitness ==
    /\ call.fn = "getFileNameHash"
    /\ call.name = <<255, 0, 128>>
    /\ call.result = U32OfInt(FoldInt(-1, call.name, 1))
    /\ call.result.hi > 0

\* C10: detectZdirType returns 24 for a length divisible by 24 (0 included),
\* 12 for a length divisible by 12 and not by 24, an error otherwise.
DetectPrefers24 ==
    call.fn = "detectZdirType" =>
        /\ call.size % 24 = 0 => (~call.result.err /\ call.result.type = 24)
        /\ (call.size % 24 # 0 /\ call.size % 12 = 0) =>
               (~call.result.err /\ call.result.type = 12)
        /\ call.size % 12 # 0 => call.result.err
        /\ call.result.type = 12 => call.size % 24 # 0

DetectWitness ==
    /\ call.fn = "detectZdirType"
    /\ call.size = 48
    /\ call.result = [err |-> FALSE, type |-> 24]

\* byte k (0..3, lowest first) of a uint32
ByteOf(u, k) ==
    IF k = 0 THEN u.lo % 256 ELSE IF k = 1 THEN u.lo \div 256
    ELSE IF k = 2 THEN u.hi % 256 ELSE u.hi \div 256

\* C2: for a directory file of L bytes, L % 12 = 0 gives exactly L/12 records,
\* record i holding the little-endian fields nameHash, localOffset, size of
\* bytes [12i, 12i+12) in file order; L % 12 # 0 gives an error and no record.
HeadersDecoded ==
    call.fn = "loadHeaders" =>
        LET b == call.bytes
            r == call.result
        IN  /\ Len(b) % 12 # 0 => (r.err /\ r.headers = <<>>)
            /\ Len(b) % 12 = 0 =>
                  /\ ~r.err
                  /\ Len(r.headers) * 12 = Len(b)
                  /\ \A i \in 1..Len(r.headers) : \A k \in 0..3 :
                        /\ ByteOf(r.headers[i].NameHash, k) = b[12 * (i - 1) + 1 + k]
                        /\ ByteOf(r.headers[i].LocalOffset, k) = b[12 * (i - 1) + 5 + k]
                        /\ ByteOf(r.headers[i].Size, k) = b[12 * (i - 1) + 9 + k]

\* two records decoded, the second one with distinct bytes in a field
HeadersWitness ==
    /\ call.fn = "loadHeaders"
    /\ Len(call.bytes) = 24
    /\ ~call.result.err
    /\ Len(call.result.headers) = 2
    /\ call.bytes[17] # call.bytes[20]
    /\ call.result.headers[2].LocalOffset = Uint32LE(call.bytes, 17)

\* the value of a string of hexadecimal digits, 0-9 and A-F only
HexVal(c) == IF c \in 48..57 THEN c - 48 ELSE IF c \in 65..70 THEN c - 55 ELSE -1

RECURSIVE ParseHex(_, _, _)
ParseHex(u, s, i) ==
    IF i > Len(s) THEN u
    ELSE ParseHex(U32((u.hi * 16 + (u.lo \div 4096)) % 65536,
                      ((u.lo % 4096) * 16) + HexVal(s[i])), s, i + 1)

\* C5: buildOutputPath yields a path for every record and catalog: for a
\* catalogued nameHash, EXTRACTED joined with the catalog path with every
\* backslash replaced by the separator; otherwise EXTRACTED/__UNKNOWN__/H, H
\* the unpadded uppercase hexadecimal of localOffset.  Size plays no part.
PathResolved ==
    call.fn = "buildOutputPath" =>
        LET h == call.h
            r == call.result
            pre == extractedRoot \o <<47>> \o unknownDir \o <<47>>
            hex == SubSeq(r, Len(pre) + 1, Len(r))
        IN  /\ r \in Seq(0..255)
            /\ h.NameHash \in DOMAIN call.hashes =>
                  /\ r = Join(<<extractedRoot,
                               [i \in 1..Len(call.hashes[h.NameHash]) |->
                                  IF call.hashes[h.NameHash][i] = 92 THEN 47
                                  ELSE call.hashes[h.NameHash][i]]>>)
                  /\ 92 \notin Range(r)
            /\ h.NameHash \notin DOMAIN call.hashes =>
                  /\ SubSeq(r, 1, Len(pre)) = pre
                  /\ Len(hex) >= 1
                  /\ \A i \in 1..Len(hex) : HexVal(hex[i]) >= 0
                  /\ Len(hex) > 1 => hex[1] # 48
                  /\ ParseHex(U32(0, 0), hex, 1) = h.LocalOffset
                  /\ h.LocalOffset = U32(0, 42) => hex = <<50, 65>>

\* an unresolved record with localOffset 0x2A and a non-zero size
PathWitness ==
    /\ call.fn = "buildOutputPath"
    /\ call.h.NameHash \notin DOMAIN call.hashes
    /\ call.h.LocalOffset = U32(0, 42)
    /\ call.h.Size = U32(0, 5)
    /\ call.hashes # <<>>
    /\ call.result = extractedRoot \o <<47>> \o unknownDir \o <<47, 50, 65>>

\* a catalogued record whose path holds a backslash
PathKnownWitness ==
    /\ call.fn = "buildOutputPath"
    /\ call.h.NameHash \in DOMAIN call.hashes
    /\ call.hashes[call.h.NameHash] = <<97, 92, 97>>
    /\ call.result = extractedRoot \o <<47, 97, 47, 97>>

-----------------------------------------------------------------------------
(* Properties of extractFile and main *)

\* the resolved path of record i
PathOf(i) == buildOutputPath(headers[i], hashList)

\* C1: extractFile returns an error whenever the archive holds fewer than
\* size bytes from offset on; it never returns success after writing fewer
\* than size bytes to the destination.
NoSilentTruncation ==
    pc = "print" =>
        /\ headers[idx].Size.hi = 0
        /\ Len(files[outPath]) = headers[idx].Size.lo

\* C6: a successful extraction of a record with localOffset o and size n
\* leaves an output file equal to the n archive bytes [o*2048, o*2048 + n),
\* the offset taken without 32-bit wraparound, and leaves the archive as it was.
ExtractIsArchiveSlice ==
    [][(pc = "extract" /\ pc' = "print") =>
          LET o == headers[idx].LocalOffset
              n == headers[idx].Size
              out == files'[outPath]
          IN  /\ archive' = archive
              /\ n.hi = 0
              /\ Len(out) = n.lo
              /\ \A i \in 1..n.lo :
                    /\ o.hi = 0
                    /\ o.lo * 2048 + i - 1 < archive.len
                    /\ out[i] = ArchiveByte(archive, o.lo * 2048 + i - 1)]_vars

\* C3: when the extraction of record k fails the run is Failed at once (the
\* output path reported, exit status 1), no later record is resolved or
\* extracted, and the output files of the records before k stay as they were.
AbortKeepsEarlierFiles ==
    [][/\ (pc = "extract" /\ ret'.err) =>
             /\ pc' = "failed"
             /\ exitCode' = 1
             /\ stderr' = Append(stderr, outPath)
             /\ \A i \in 1..(idx - 1) :
                   /\ PathOf(i) \in DOMAIN files'
                   /\ files'[PathOf(i)] = files[PathOf(i)]
       /\ pc = "failed" => (pc' = "failed" /\ idx' = idx /\ files' = files)]_vars

\* C8: after a run that reaches Done over N records there are N output files,
\* one per record, each holding the bytes extracted for its own record; no
\* later extraction overwrites the output file of an earlier record.
OneFilePerRecord ==
    pc = "done" =>
        /\ Cardinality(DOMAIN files) = Len(headers)
        /\ \A i \in 1..Len(headers) :
              /\ PathOf(i) \in DOMAIN files
              /\ files[PathOf(i)] = SectionBytes(archive, Shl(headers[i].LocalOffset),
                                                 I64FromU32(headers[i].Size))

\* the paths on standard output: its lines other than the usage text
PrintedPaths == SelectSeq(stdout, LAMBDA l : l \notin Range(printUsage(progname)))

\* C4: the paths on standard output are a prefix of the resolved paths of the
\* records in directory order; the path of record i is printed only after its
\* extraction returned success and before record i+1 is extracted; a run that
\* reaches Done has printed one path per record.
PrintedInOrder ==
    /\ [](/\ Len(PrintedPaths) <= Len(headers)
          /\ \A i \in 1..Len(PrintedPaths) : PrintedPaths[i] = PathOf(i)
          /\ pc # "usage" => PrintedPaths = stdout
          /\ pc \in {"resolve", "extract"} => Len(PrintedPaths) = idx - 1
          /\ pc = "print" => (Len(PrintedPaths) = idx - 1 /\ ~ret.err /\ ret.idx = idx)
          /\ pc = "done" => Len(PrintedPaths) = Len(headers))
    /\ [][PrintedPaths' # PrintedPaths =>
             /\ pc = "print"
             /\ ~ret.err /\ ret.idx = idx
             /\ PrintedPaths' = Append(PrintedPaths, PathOf(idx))]_vars

\* two records extracted and reported, at two different paths
PrintedWitness ==
    /\ pc = "done"
    /\ Len(headers) = 2
    /\ Len(stdout) = 2
    /\ stdout[1] # stdout[2]
    /\ stdout[2] = PathOf(2)

\* the index of the last scanned line with the hash h
LastLineWith(lines, h) ==
    CHOOSE i \in 1..Len(lines) :
        /\ getFileNameHash(lines[i]) = h
        /\ \A j \in (i + 1)..Len(lines) : getFileNameHash(lines[j]) # h

\* C9: the keys of the catalog are exactly the hashes of the scanned lines,
\* empty lines included, each key mapped to the last line with that hash; the
\* catalog is complete before the first record is resolved and stays as it
\* is during the record loop.
CatalogLastWins ==
    (pc \in {"resolve", "extract", "print", "done"} \/ (pc = "failed" /\ ret.called)) =>
        LET lines == ScanLines(listText)
        IN  /\ DOMAIN hashList = {getFileNameHash(lines[i]) : i \in 1..Len(lines)}
            /\ \A h \in DOMAIN hashList : hashList[h] = lines[LastLineWith(lines, h)]

\* two distinct lines with one hash scanned, the later one in the catalog,
\* and a record already extracted
CatalogWitness ==
    /\ pc = "print"
    /\ argc = 3
    /\ listText = <<97, 80, 10, 98, 47, 10>>
    /\ getFileNameHash(<<97, 80>>) = getFileNameHash(<<98, 47>>)
    /\ DOMAIN hashList = {getFileNameHash(<<97, 80>>)}
    /\ hashList[getFileNameHash(<<97, 80>>)] = <<98, 47>>

\* the catalog has a key for the empty line
CatalogEmptyLineWitness ==
    /\ pc = "resolve"
    /\ listText = <<10, 97, 10>>
    /\ DOMAIN hashList = {U32(65535, 65535), getFileNameHash(<<97>>)}

\* a list whose second line is too long for the scanner: the catalog holds
\* the line before it and nothing of the lines from it on
CatalogTooLongWitness ==
    /\ pc = "resolve"
    /\ Len(listText) > MaxScanTokenSize
    /\ DOMAIN hashList = {getFileNameHash(<<97, 80>>)}
    /\ hashList[getFileNameHash(<<97, 80>>)] = <<97, 80>>

\* a run with too few arguments: usage on standard output, exit status 1,
\* nothing loaded and no file created
UsageWitness ==
    /\ pc = "usage"
    /\ argc = 2
    /\ exitCode = 1
    /\ stdout = printUsage(progname)
    /\ PrintedPaths = <<>>
    /\ files = <<>>

====
